---- MODULE Spec2Model ----
(***************************************************************************)
(* Model of paisa's transaction aggregation engine (processTransactions)   *)
(* and of the dashboard render that calls it, of the paginated            *)
(* fetchTransactions of the API client and of the dashboard's connect      *)
(* flow.                                                                   *)
(*                                                                         *)
(* Representation.                                                         *)
(*   - A date string "YYYY-MM-DD" is the tuple <<y, m, d>>.                *)
(*   - An optional value (string | null, number | undefined) is the empty  *)
(*     tuple <<>> when absent and the one-element tuple <<v>> when present.*)
(*   - A currency amount is an integer number of tenths (Scale = 10), so   *)
(*     that 0.4, 0.5 and 25.5 are representable and Math.round is exact.   *)
(*   - Record<string, number> is a function from its key set.              *)
(***************************************************************************)
EXTENDS Integers, Sequences, FiniteSets, TLC

VARIABLES
    currentYearTx,          \* period A transaction list (argument 1)
    previousYearTx,         \* period B transaction list (argument 2)
    currentYear,            \* yearA
    previousYear,           \* yearB
    month,                  \* optional month argument
    excludeCategoryNames,   \* optional exclusion list (a set: the code builds a Set)
    today,                  \* the wall clock read by `new Date()`
    summary,                \* the SpendSummary of the last render
    \* fetchTransactions
    offset,                 \* let offset
    allFetched,             \* const all
    requests,               \* the page requests sent so far, in order
    responses,              \* the pages received so far, in order
    fetchPc,                \* position of the loop: "idle", "request", "await",
                            \* "returned" or "rejected"
    fetchResult,            \* the value the promise resolved with, if it did
    fetchError,             \* the error the promise rejected with, if it did
    \* Dashboard connect flow
    apiKey,                 \* useState apiKey
    storedKey,              \* the "lm_api_key" item of the browser storage
    connectError,           \* useState connectError
    isConnecting,           \* useState isConnecting
    pendingKeys,            \* arguments of the handleConnect calls awaiting fetchUser
    validatedKeys,          \* the keys fetchUser has resolved for
    lastEvent               \* the step of the connect flow taken last

engineVars == <<currentYearTx, previousYearTx, currentYear, previousYear, month,
                excludeCategoryNames, today, summary>>

fetchVars == <<offset, allFetched, requests, responses, fetchPc, fetchResult, fetchError>>

connectVars == <<apiKey, storedKey, connectError, isConnecting, pendingKeys,
                 validatedKeys, lastEvent>>

vars == <<engineVars, fetchVars, connectVars>>

----------------------------------------------------------------------------
(* Bounds and program constants *)

\* Longest transaction list of period A and of period B.
MaxTxA == 2
MaxTxB == 1

\* Number of categories with spend in the top-categories specification.
NumCats == 9

\* Number of tenths in one currency unit (fixed-point rendering of a float).
Scale == 10

\* .slice(0, 8)
TopN == 8

\* Math.min(5, ...) of the week-of-month bucket
MaxWeekOfMonth == 5

\* currentWeekNum / totalWeeksForAvg of a year that is not the present one
WeeksInYearView == 52

Null == <<>>
Some(x) == <<x>>

Min(a, b) == IF a < b THEN a ELSE b
AbsInt(x) == IF x < 0 THEN -x ELSE x

Range(s) == {s[i] : i \in 1..Len(s)}

----------------------------------------------------------------------------
(* Numbers *)

\* Math.round on a value in tenths: nearest integer, halves towards +infinity.
MathRound(v) == (2 * v + Scale) \div (2 * Scale)

\* The amount strings of the model and what parseFloat makes of them
\* (in tenths). "abc" parses to NaN; "-0" parses to negative zero, which is
\* not < 0.
AmountStrings ==
    {"-50", "-0.4", "-75.5", "-1000", "-20", "-5", "-1", "-2", "-10", "-5.4",
     "-0", "abc", "30"}

parseFloat(s) ==
    CASE s = "-50"   -> [nan |-> FALSE, val |-> -500]
      [] s = "-0.4"  -> [nan |-> FALSE, val |-> -4]
      [] s = "-75.5" -> [nan |-> FALSE, val |-> -755]
      [] s = "-1000" -> [nan |-> FALSE, val |-> -10000]
      [] s = "-20"   -> [nan |-> FALSE, val |-> -200]
      [] s = "-5"    -> [nan |-> FALSE, val |-> -50]
      [] s = "-1"    -> [nan |-> FALSE, val |-> -10]
      [] s = "-2"    -> [nan |-> FALSE, val |-> -20]
      [] s = "-10"   -> [nan |-> FALSE, val |-> -100]
      [] s = "-5.4"  -> [nan |-> FALSE, val |-> -54]
      [] s = "-0"    -> [nan |-> FALSE, val |-> 0]
      [] s = "30"    -> [nan |-> FALSE, val |-> 300]
      [] OTHER       -> [nan |-> TRUE,  val |-> 0]

\* parseFloat(t.amount) < 0 : false for NaN
IsNegative(p) == ~p.nan /\ p.val < 0

\* Mutant of AbsAmount: the amount keeps its sign (Math.abs forgotten).
AbsAmount_Signed(t) == parseFloat(t.amount).val

\* Math.abs(parseFloat(tx.amount)) of an expense. Every expense passed
\* filterExpenses, so its amount parsed to a number below zero.
AbsAmount(t) == AbsInt(parseFloat(t.amount).val)

----------------------------------------------------------------------------
(* Calendar helpers *)

isLeapYear(year) ==
    (year % 4 = 0 /\ year % 100 # 0) \/ year % 400 = 0

\* date-fns getDaysInMonth for month m (1..12) of year y
DaysInMonthOf(y, m) ==
    IF m = 2 THEN (IF isLeapYear(y) THEN 29 ELSE 28)
    ELSE IF m \in {4, 6, 9, 11} THEN 30 ELSE 31

\* getDaysInMonth(new Date(year, m - 1, 1)): the Date constructor carries a
\* month index outside 0..11 over into the neighbouring years.
getDaysInMonth(year, m) ==
    LET idx == m - 1
        y   == year + (idx \div 12)
        mm  == (idx % 12) + 1
    IN DaysInMonthOf(y, mm)

\* 1 in a leap year, else 0
LeapDay(y) == IF isLeapYear(y) THEN 1 ELSE 0

\* the number of days of year y before its month m (1..12)
DaysBeforeMonth(y, m) ==
    <<0, 31, 59, 90, 120, 151, 181, 212, 243, 273, 304, 334>>[m]
    + (IF m > 2 THEN LeapDay(y) ELSE 0)

DaysInYear(y) == IF isLeapYear(y) THEN 366 ELSE 365

\* ordinal day of a date within its own year
Ordinal(date) == DaysBeforeMonth(date[1], date[2]) + date[3]

\* Day of year 1-366; 0 when the date is not in `year`
getDayOfYear(dateStr, year) ==
    IF dateStr[1] # year THEN 0 ELSE Ordinal(dateStr)

\* Day of month 1-31
getDayOfMonth(dateStr) == dateStr[3]

\* Day of the week of 1 January of year y, 0 = Sunday .. 6 = Saturday
Jan1Weekday(y) ==
    (1 + 5 * ((y - 1) % 4) + 4 * ((y - 1) % 100) + 6 * ((y - 1) % 400)) % 7

\* ISO weekday 1 = Monday .. 7 = Sunday
IsoWeekday(date) ==
    LET w == (Jan1Weekday(date[1]) + Ordinal(date) - 1) % 7
    IN IF w = 0 THEN 7 ELSE w

\* number of ISO weeks of year y: the week of 28 December
IsoWeeksInYear(y) ==
    (Ordinal(<<y, 12, 28>>) - IsoWeekday(<<y, 12, 28>>) + 10) \div 7

\* date-fns getISOWeek
getISOWeek(date) ==
    LET w == (Ordinal(date) - IsoWeekday(date) + 10) \div 7
    IN IF w < 1 THEN IsoWeeksInYear(date[1] - 1)
       ELSE IF w > IsoWeeksInYear(date[1]) THEN 1
       ELSE w

getWeekNumber(dateStr) == getISOWeek(dateStr)

\* Week of month 1-5 (days 1-7, 8-14, 15-21, 22-28, 29-31)
getWeekOfMonth(dateStr) ==
    Min(MaxWeekOfMonth, (dateStr[3] + 6) \div 7)

\* Format day of year as YYYY-MM-DD: addDays(startOfYear, dayOfYear - 1),
\* for dayOfYear in 1..DaysInYear(year)
dateFromDayOfYear(year, dayOfYear) ==
    LET n == dayOfYear
        f == LeapDay(year)
    IN IF n <= 31 THEN <<year, 1, n>>
       ELSE IF n <= 59 + f  THEN <<year, 2, n - 31>>
       ELSE IF n <= 90 + f  THEN <<year, 3, n - 59 - f>>
       ELSE IF n <= 120 + f THEN <<year, 4, n - 90 - f>>
       ELSE IF n <= 151 + f THEN <<year, 5, n - 120 - f>>
       ELSE IF n <= 181 + f THEN <<year, 6, n - 151 - f>>
       ELSE IF n <= 212 + f THEN <<year, 7, n - 181 - f>>
       ELSE IF n <= 243 + f THEN <<year, 8, n - 212 - f>>
       ELSE IF n <= 273 + f THEN <<year, 9, n - 243 - f>>
       ELSE IF n <= 304 + f THEN <<year, 10, n - 273 - f>>
       ELSE IF n <= 334 + f THEN <<year, 11, n - 304 - f>>
       ELSE <<year, 12, n - 334 - f>>

\* a.date.localeCompare(b.date) < 0 on well-formed YYYY-MM-DD strings
DateBefore(a, b) ==
    \/ a[1] < b[1]
    \/ a[1] = b[1] /\ a[2] < b[2]
    \/ a[1] = b[1] /\ a[2] = b[2] /\ a[3] < b[3]

----------------------------------------------------------------------------
(* Category names and sorting *)

\* Every category name of the model, in a.localeCompare(b) order.
CategoryNames ==
    <<"Auto", "Bills", "Coffee", "Dining", "Food", "Gas", "gym", "Health",
      "Insurance", "Kids", "Music", "Pets", "Rent", "Travel", "Uncategorized">>

NameRank(name) == CHOOSE i \in 1..Len(CategoryNames) : CategoryNames[i] = name

\* a.localeCompare(b) < 0
LocaleBefore(a, b) == NameRank(a) < NameRank(b)

\* the names that start with a lower-case letter
LowerCaseNames == {"gym"}

\* a < b on strings: the order of the UTF-16 code units, in which every
\* upper-case letter comes before every lower-case letter
CodeUnitBefore(a, b) ==
    IF (a \in LowerCaseNames) = (b \in LowerCaseNames)
    THEN NameRank(a) < NameRank(b)
    ELSE b \in LowerCaseNames

\* Array.prototype.sort with comparator "Before" (Before(a, b) iff the
\* comparator is negative on (a, b)): a stable sort, elements that compare
\* equal keep their order.
StableSort(s, Before(_, _)) ==
    LET n == Len(s)
        pos(i) == 1 + Cardinality({j \in 1..n :
                        \/ Before(s[j], s[i])
                        \/ (~Before(s[i], s[j]) /\ j < i)})
    IN IF n = 0 THEN <<>>
       ELSE [k \in 1..n |-> s[CHOOSE i \in 1..n : pos(i) = k]]

\* [...new Set(s)] : the distinct elements in order of first appearance
RECURSIVE Distinct(_)
Distinct(s) ==
    IF Len(s) = 0 THEN <<>>
    ELSE LET front == Distinct(SubSeq(s, 1, Len(s) - 1))
             last  == s[Len(s)]
         IN IF last \in Range(front) THEN front ELSE Append(front, last)

\* s.map(f) guarded for the empty list
MapSeq(s, f(_)) == IF Len(s) = 0 THEN <<>> ELSE [i \in 1..Len(s) |-> f(s[i])]

\* s.slice(0, n)
Slice(s, n) == SubSeq(s, 1, Min(n, Len(s)))

----------------------------------------------------------------------------
(* Transactions *)

\* `month ? a : b` : undefined and 0 are falsy
Truthy(m) == m # Null /\ m[1] # 0

\* Mutant of filterByMonth: the year of the date is not compared.
filterByMonth_AnyYear(tx, year, m) ==
    SelectSeq(tx, LAMBDA t : t.date[2] = m)

filterByMonth(tx, year, m) ==
    SelectSeq(tx, LAMBDA t : t.date[1] = year /\ t.date[2] = m)

\* Mutant of filterExpenses: amounts that are not positive pass (<= for <).
filterExpenses_NonPositive(tx) ==
    SelectSeq(tx, LAMBDA t :
        /\ ~t.is_income
        /\ ~t.exclude_from_totals
        /\ ~parseFloat(t.amount).nan
        /\ parseFloat(t.amount).val <= 0)

\* Mutant of filterExpenses: the income flag is not tested.
filterExpenses_KeepsIncome(tx) ==
    SelectSeq(tx, LAMBDA t :
        /\ ~t.exclude_from_totals
        /\ IsNegative(parseFloat(t.amount)))

\* only debits (negative amounts), exclude income, exclude exclude_from_totals
filterExpenses(tx) ==
    SelectSeq(tx, LAMBDA t :
        /\ ~t.is_income
        /\ ~t.exclude_from_totals
        /\ IsNegative(parseFloat(t.amount)))

\* t.category_name || "Uncategorized" : null and "" are falsy
CategoryOf(t) ==
    IF t.category_name = Null \/ t.category_name = Some("")
    THEN "Uncategorized"
    ELSE t.category_name[1]

\* the sum of Math.abs(parseFloat(t.amount)) over a list of expenses, tenths
RECURSIVE SumAmounts(_)
SumAmounts(tx) ==
    IF Len(tx) = 0 THEN 0 ELSE AbsAmount(Head(tx)) + SumAmounts(Tail(tx))

\* the category keys of a list of expenses in insertion order
CategoryKeys(expenses) ==
    Distinct(MapSeq(expenses, CategoryOf))

\* xxxCategorySpend[name] : unrounded spend of one category, tenths
CategorySpendOf(expenses, name) ==
    SumAmounts(SelectSeq(expenses, LAMBDA t : CategoryOf(t) = name))

\* Mutant of AllCategoryNamesOf: the names stay in insertion order.
AllCategoryNamesOf_Unsorted(currentExpenses, previousExpenses) ==
    Distinct(CategoryKeys(currentExpenses) \o CategoryKeys(previousExpenses))

\* All category names (from unfiltered expenses) for filter UI, sorted
AllCategoryNamesOf(currentExpenses, previousExpenses) ==
    StableSort(Distinct(CategoryKeys(currentExpenses) \o CategoryKeys(previousExpenses)),
               LocaleBefore)

\* categoryTotals / categoryTotalsPreviousYear: rounded spend per category
\* over every name of allCategoryNames (0 for a name the period lacks)
CategoryTotalsOf(expenses, allCategoryNames) ==
    [name \in Range(allCategoryNames) |->
        MathRound(CategorySpendOf(expenses, name))]

\* Mutant of excludeByCategory: the raw category_name is compared, without
\* the "Uncategorized" default.
excludeByCategory_RawName(expenses, excludeNames) ==
    IF excludeNames # {}
    THEN SelectSeq(expenses,
                   LAMBDA t : t.category_name \notin {Some(n) : n \in excludeNames})
    ELSE expenses

\* Mutant of excludeByCategory: nothing is excluded.
excludeByCategory_None(expenses, excludeNames) == expenses

\* Optional category exclusion
excludeByCategory(expenses, excludeNames) ==
    IF excludeNames # {}
    THEN SelectSeq(expenses, LAMBDA t : CategoryOf(t) \notin excludeNames)
    ELSE expenses

----------------------------------------------------------------------------
(* Per-day structures *)

\* getDay / getDayPrev: day of month in month view, else day of `year`
DayIndex(dateStr, year, m) ==
    IF Truthy(m) THEN getDayOfMonth(dateStr) ELSE getDayOfYear(dateStr, year)

\* if (day >= 1 && day <= maxDays)
InView(day, maxDays) == day >= 1 /\ day <= maxDays

\* each expense of a period with the day index the accumulation loop
\* computes for it (const day = getDay(tx.date))
WithDayIndex(expenses, year, m) ==
    SelectSeq(MapSeq(expenses,
                     LAMBDA t : [tx |-> t, day |-> DayIndex(t.date, year, m)]),
              LAMBDA e : TRUE)

\* the expenses accumulated into xxxDaily[day] and xxxDailyByCategory[day]
ExpensesOnDay(dated, maxDays, day) ==
    MapSeq(SelectSeq(dated, LAMBDA e : e.day = day /\ InView(e.day, maxDays)),
           LAMBDA e : e.tx)

\* xxxDailyByCategory[day] || {} as Object.entries: [name, amount] in
\* insertion order, amounts unrounded
DayCategorySpend(onDay) ==
    MapSeq(CategoryKeys(onDay),
           LAMBDA name : [name |-> name, amount |-> CategorySpendOf(onDay, name)])

\* dayCategorySpend[name] || 0
SpendOr0(entries, name) ==
    IF \E i \in 1..Len(entries) : entries[i].name = name
    THEN entries[CHOOSE i \in 1..Len(entries) : entries[i].name = name].amount
    ELSE 0

\* Mutant of toDailyCategoryBreakdown: the amounts are filtered before they
\* are rounded.
toDailyCategoryBreakdown_FilterUnrounded(dayCategorySpend) ==
    StableSort(
        MapSeq(SelectSeq(dayCategorySpend, LAMBDA e : e.amount > 0),
               LAMBDA e : [name |-> e.name, amount |-> MathRound(e.amount)]),
        LAMBDA a, b : \/ a.amount > b.amount
                      \/ a.amount = b.amount /\ LocaleBefore(a.name, b.name))

toDailyCategoryBreakdown(dayCategorySpend) ==
    StableSort(
        SelectSeq(
            MapSeq(dayCategorySpend,
                   LAMBDA e : [name |-> e.name, amount |-> MathRound(e.amount)]),
            LAMBDA entry : entry.amount > 0),
        LAMBDA a, b : \/ a.amount > b.amount
                      \/ a.amount = b.amount /\ LocaleBefore(a.name, b.name))

\* Mutant of toDifferenceDrivers: ordered by descending signed difference.
toDifferenceDrivers_SignedOrder(currentDayCategorySpend, previousDayCategorySpend) ==
    LET categoryNames ==
            Distinct(MapSeq(currentDayCategorySpend, LAMBDA e : e.name)
                     \o MapSeq(previousDayCategorySpend, LAMBDA e : e.name))
        entryOf(name) ==
            LET cy == MathRound(SpendOr0(currentDayCategorySpend, name))
                py == MathRound(SpendOr0(previousDayCategorySpend, name))
            IN [name |-> name, currentYear |-> cy, previousYear |-> py,
                difference |-> cy - py]
    IN StableSort(
        SelectSeq(MapSeq(categoryNames, entryOf),
                  LAMBDA entry : entry.currentYear > 0 \/ entry.previousYear > 0),
        LAMBDA a, b :
            \/ a.difference > b.difference
            \/ /\ a.difference = b.difference
               /\ a.currentYear + a.previousYear > b.currentYear + b.previousYear
            \/ /\ a.difference = b.difference
               /\ a.currentYear + a.previousYear = b.currentYear + b.previousYear
               /\ LocaleBefore(a.name, b.name))

toDifferenceDrivers(currentDayCategorySpend, previousDayCategorySpend) ==
    LET categoryNames ==
            Distinct(MapSeq(currentDayCategorySpend, LAMBDA e : e.name)
                     \o MapSeq(previousDayCategorySpend, LAMBDA e : e.name))
        entryOf(name) ==
            LET cy == MathRound(SpendOr0(currentDayCategorySpend, name))
                py == MathRound(SpendOr0(previousDayCategorySpend, name))
            IN [name |-> name, currentYear |-> cy, previousYear |-> py,
                difference |-> cy - py]
    IN StableSort(
        SelectSeq(MapSeq(categoryNames, entryOf),
                  LAMBDA entry : entry.currentYear > 0 \/ entry.previousYear > 0),
        LAMBDA a, b :
            \/ AbsInt(a.difference) > AbsInt(b.difference)
            \/ /\ AbsInt(a.difference) = AbsInt(b.difference)
               /\ a.currentYear + a.previousYear > b.currentYear + b.previousYear
            \/ /\ AbsInt(a.difference) = AbsInt(b.difference)
               /\ a.currentYear + a.previousYear = b.currentYear + b.previousYear
               /\ LocaleBefore(a.name, b.name))

----------------------------------------------------------------------------
(* Calendar framing *)

\* now.getFullYear() === currentYear
IsCurrentYear(year, now) == now[1] = year

\* Mutant of IsCurrentMonth: any given month counts as the present one.
IsCurrentMonth_AnyMonth(m, now) == m # Null

\* month != null && now.getMonth() + 1 === month
IsCurrentMonth(m, now) == m # Null /\ now[2] = m[1]

\* Mutant of CurrentWeekNum: the month view forgets to compare the year.
CurrentWeekNum_NoYearCheck(year, m, now) ==
    IF Truthy(m)
    THEN IF now[2] = m[1]
         THEN Min(MaxWeekOfMonth, (now[3] + 6) \div 7)
         ELSE MaxWeekOfMonth
    ELSE IF now[1] = year THEN getISOWeek(now) ELSE WeeksInYearView

\* Math.min(5, Math.ceil(now.getDate() / 7)), getISOWeek(now), 5 or 52
CurrentWeekNum(year, m, now) ==
    IF Truthy(m)
    THEN IF now[1] = year /\ now[2] = m[1]
         THEN Min(MaxWeekOfMonth, (now[3] + 6) \div 7)
         ELSE MaxWeekOfMonth
    ELSE IF now[1] = year THEN getISOWeek(now) ELSE WeeksInYearView

\* Mutant of MaxDays: the year view always has 365 days.
MaxDays_NoLeap(year, m) ==
    IF Truthy(m) THEN getDaysInMonth(year, m[1]) ELSE 365

\* Day-based view: max days
MaxDays(year, m) ==
    IF Truthy(m) THEN getDaysInMonth(year, m[1])
    ELSE IF isLeapYear(year) THEN 366 ELSE 365

\* Mutant of CurrentDayNum: the marker is always the last day of the view.
CurrentDayNum_EndOfView(year, m, now) == MaxDays(year, m)

\* Day-based view: current day index
CurrentDayNum(year, m, now) ==
    IF Truthy(m)
    THEN IF IsCurrentYear(year, now) /\ IsCurrentMonth(m, now)
         THEN now[3]
         ELSE MaxDays(year, m)
    ELSE IF IsCurrentYear(year, now)
         THEN getDayOfYear(<<year, now[2], now[3]>>, year)
         ELSE MaxDays(year, m)

\* Mutant of AdvancesCurrent: the series advances on every day.
AdvancesCurrent_Always(day, currentDayNum, isCurrentYear) == TRUE

\* Mutant of AdvancesCurrent: today's own spend is not accumulated (< for <=).
AdvancesCurrent_BeforeToday(day, currentDayNum, isCurrentYear) ==
    day < currentDayNum \/ ~isCurrentYear

\* if (day <= currentDayNum || !isCurrentYear)
AdvancesCurrent(day, currentDayNum, isCurrentYear) ==
    day <= currentDayNum \/ ~isCurrentYear

\* `${currentYear}-${month}-${day}` in month view, else dateFromDayOfYear
DateStrOf(year, m, day) ==
    IF Truthy(m) THEN <<year, m[1], day>> ELSE dateFromDayOfYear(year, day)

----------------------------------------------------------------------------
(* Cumulative series *)

\* Mutant of DailyEntry: the period-A fields of a day on which the series
\* does not advance are left empty.
DailyEntry_BlankAfterToday(c, day, cumC, cumP, curOnDay, prevOnDay) ==
    LET shown == IF AdvancesCurrent(day, c.currentDayNum, c.isCurrentYear)
                 THEN curOnDay ELSE <<>>
        curByCategory  == DayCategorySpend(shown)
        prevByCategory == DayCategorySpend(prevOnDay)
    IN [day |-> day,
        currentYear |-> MathRound(cumC),
        previousYear |-> MathRound(cumP),
        currentDaySpend |-> MathRound(SumAmounts(shown)),
        previousDaySpend |-> MathRound(SumAmounts(prevOnDay)),
        currentDayCategoryBreakdown |-> toDailyCategoryBreakdown(curByCategory),
        previousDayCategoryBreakdown |-> toDailyCategoryBreakdown(prevByCategory),
        differenceDrivers |-> toDifferenceDrivers(curByCategory, prevByCategory),
        dateStr |-> DateStrOf(c.currentYear, c.month, day)]

\* One DailyData entry, pushed by the loop over day = 1..totalDaysInView.
\* cumC and cumP are the running sums after this day's additions, curOnDay
\* and prevOnDay the expenses accumulated on this day.
DailyEntry(c, day, cumC, cumP, curOnDay, prevOnDay) ==
    LET curByCategory  == DayCategorySpend(curOnDay)
        prevByCategory == DayCategorySpend(prevOnDay)
    IN [day |-> day,
        currentYear |-> MathRound(cumC),
        previousYear |-> MathRound(cumP),
        currentDaySpend |-> MathRound(SumAmounts(curOnDay)),
        previousDaySpend |-> MathRound(SumAmounts(prevOnDay)),
        currentDayCategoryBreakdown |-> toDailyCategoryBreakdown(curByCategory),
        previousDayCategoryBreakdown |-> toDailyCategoryBreakdown(prevByCategory),
        differenceDrivers |-> toDifferenceDrivers(curByCategory, prevByCategory),
        dateStr |-> DateStrOf(c.currentYear, c.month, day)]

\* Mutant of DayAmount: the day's spend is rounded before it is added.
DayAmount_Rounded(onDay) == Scale * MathRound(SumAmounts(onDay))

\* currentDaily[day] || 0 : the unrounded spend of the day, tenths
DayAmount(onDay) == SumAmounts(onDay)

\* One iteration of `for (let day = 1; day <= totalDaysInView; day++)`.
\* st = [cumulativeCurrent, cumulativePrevious, totalCurrentYearValue, dailyData]
DailyStep(c, day, st) ==
    LET curOnDay  == ExpensesOnDay(c.currentDated, c.maxDays, day)
        prevOnDay == ExpensesOnDay(c.previousDated, c.maxDays, day)
        curDay  == DayAmount(curOnDay)
        prevDay == DayAmount(prevOnDay)
        adv     == AdvancesCurrent(day, c.currentDayNum, c.isCurrentYear)
        cumC    == IF adv THEN st.cumulativeCurrent + curDay
                   ELSE st.cumulativeCurrent
        tcy     == IF adv /\ day = c.currentDayNum /\ c.isCurrentYear
                   THEN cumC ELSE st.totalCurrentYearValue
        cumP    == st.cumulativePrevious + prevDay
    IN [cumulativeCurrent |-> cumC,
        cumulativePrevious |-> cumP,
        totalCurrentYearValue |-> tcy,
        dailyData |-> Append(st.dailyData,
                             DailyEntry(c, day, cumC, cumP, curOnDay, prevOnDay))]

\* The iterations for day = lo..hi in ascending order, started in state st.
\* The range is split in halves only to keep the evaluation depth
\* logarithmic; the steps run in the loop's order.
RECURSIVE DailyLoop(_, _, _, _)
DailyLoop(c, lo, hi, st) ==
    IF lo > hi THEN st
    ELSE IF lo = hi THEN DailyStep(c, lo, st)
    ELSE LET mid   == (lo + hi) \div 2
             first == DailyLoop(c, lo, mid, st)
         IN \* the test makes the first half a value before the second half runs
            IF Len(first.dailyData) >= 0
            THEN DailyLoop(c, mid + 1, hi, first)
            ELSE first

----------------------------------------------------------------------------
(* Totals and top categories *)

\* Math.round(isCurrentYear ? totalCurrentYearValue : cumulativeCurrent)
TotalCurrentYearOf(isCurrentYear, totalCurrentYearValue, cumulativeCurrent) ==
    MathRound(IF isCurrentYear THEN totalCurrentYearValue ELSE cumulativeCurrent)

\* ((a - b) / b) * 100 as the exact fraction num/den (den > 0)
PercentOf(a, b) == [num |-> (a - b) * 100, den |-> b]

\* Mutant of PercentChangeOf: the guard tests the wrong total.
PercentChangeOf_CurrentGuard(totalCurrentYear, totalPreviousYear) ==
    IF totalCurrentYear > 0
    THEN Some(PercentOf(totalCurrentYear, totalPreviousYear))
    ELSE Null

\* totalPreviousYear > 0 ? ((cur - prev) / prev) * 100 : null
PercentChangeOf(totalCurrentYear, totalPreviousYear) ==
    IF totalPreviousYear > 0
    THEN Some(PercentOf(totalCurrentYear, totalPreviousYear))
    ELSE Null

\* one CategorySpend entry from the unrounded spends cy and py (tenths)
CategorySpendEntry(name, cy, py) ==
    [name |-> name,
     currentYear |-> MathRound(cy),
     previousYear |-> MathRound(py),
     difference |-> MathRound(cy - py),
     percentChange |-> IF py > 0 THEN Some(PercentOf(cy, py)) ELSE Null]

\* every category with an expense in either period, current-year keys first
AllCategoriesOf(currentExpenses, previousExpenses) ==
    Distinct(CategoryKeys(currentExpenses) \o CategoryKeys(previousExpenses))

\* Mutant of ByCurrentYearDesc: the comparator is reversed.
ByCurrentYearAsc(entries) ==
    StableSort(entries, LAMBDA a, b : a.currentYear < b.currentYear)

\* .sort((a, b) => b.currentYear - a.currentYear)
ByCurrentYearDesc(entries) ==
    StableSort(entries, LAMBDA a, b : a.currentYear > b.currentYear)

\* Top categories by current year spend
TopCategoriesOf(currentExpenses, previousExpenses) ==
    Slice(
        ByCurrentYearDesc(
            MapSeq(AllCategoriesOf(currentExpenses, previousExpenses),
                   LAMBDA name :
                       CategorySpendEntry(name,
                           CategorySpendOf(currentExpenses, name),
                           CategorySpendOf(previousExpenses, name)))),
        TopN)

\* Math.round(a / b) for integers a >= 0, b > 0
RoundDiv(a, b) == (2 * a + b) \div (2 * b)

----------------------------------------------------------------------------
(* Weekly roll-up *)

\* getWeek: week of month in month view, else ISO week
WeekOf(dateStr, m) ==
    IF Truthy(m) THEN getWeekOfMonth(dateStr) ELSE getWeekNumber(dateStr)

\* Mutant of WeekKeys: every week of the view has a bucket.
WeekKeys_EveryWeek(expenses, m) ==
    1..(IF Truthy(m) THEN MaxWeekOfMonth ELSE WeeksInYearView)

\* the keys of xxxByWeek
WeekKeys(expenses, m) == {WeekOf(expenses[i].date, m) : i \in 1..Len(expenses)}

\* Mutant of WeekTransactions: a bucket also holds the expenses of the
\* weeks before it.
WeekTransactions_UpToWeek(expenses, m, w) ==
    StableSort(SelectSeq(expenses, LAMBDA t : WeekOf(t.date, m) <= w),
               LAMBDA a, b : DateBefore(a.date, b.date))

\* Mutant of WeekTransactions: the line items stay in input order.
WeekTransactions_Unsorted(expenses, m, w) ==
    SelectSeq(expenses, LAMBDA t : WeekOf(t.date, m) = w)

\* xxxByWeek[w].transactions after the sort by date ascending
WeekTransactions(expenses, m, w) ==
    StableSort(SelectSeq(expenses, LAMBDA t : WeekOf(t.date, m) = w),
               LAMBDA a, b : DateBefore(a.date, b.date))

\* a set of numbers .sort((a, b) => a - b)
RECURSIVE Ascending(_)
Ascending(S) ==
    IF S = {} THEN <<>>
    ELSE LET lo == CHOOSE x \in S : \A y \in S : x <= y
         IN <<lo>> \o Ascending(S \ {lo})

WeeklyDataOf(currentExpenses, previousExpenses, m) ==
    MapSeq(Ascending(WeekKeys(currentExpenses, m) \cup WeekKeys(previousExpenses, m)),
           LAMBDA week :
               LET cur  == WeekTransactions(currentExpenses, m, week)
                   prev == WeekTransactions(previousExpenses, m, week)
               IN [week |-> week,
                   currentYearTotal |-> MathRound(SumAmounts(cur)),
                   currentYearCount |-> Len(cur),
                   currentYearTransactions |-> cur,
                   previousYearTotal |-> MathRound(SumAmounts(prev)),
                   previousYearCount |-> Len(prev),
                   previousYearTransactions |-> prev])

----------------------------------------------------------------------------
(* processTransactions *)

\* Mutant of ExpensesBeforeExclusion: the labels are computed after the
\* category exclusion.
ExpensesAfterExclusion(expenses, excludeNames) ==
    excludeByCategory(expenses, excludeNames)

\* The value of currentExpenses / previousExpenses that the filter-label code
\* reads: the expense-filtered list, which the category exclusion further
\* down has not yet reassigned.
ExpensesBeforeExclusion(expenses, excludeNames) == expenses

ProcessTransactions(curTx, prevTx, yearA, yearB, m, excludeNames, now) ==
    LET currentTx  == IF Truthy(m) THEN filterByMonth(curTx, yearA, m[1]) ELSE curTx
        previousTx == IF Truthy(m) THEN filterByMonth(prevTx, yearB, m[1]) ELSE prevTx
        currentFiltered  == filterExpenses(currentTx)
        previousFiltered == filterExpenses(previousTx)
        labelCurrent  == ExpensesBeforeExclusion(currentFiltered, excludeNames)
        labelPrevious == ExpensesBeforeExclusion(previousFiltered, excludeNames)
        allCategoryNames == AllCategoryNamesOf(labelCurrent, labelPrevious)
        currentExpenses  == excludeByCategory(currentFiltered, excludeNames)
        previousExpenses == excludeByCategory(previousFiltered, excludeNames)
        currentWeekNum == CurrentWeekNum(yearA, m, now)
        isCurrentYear  == IsCurrentYear(yearA, now)
        isCurrentMonth == IsCurrentMonth(m, now)
        maxDays        == MaxDays(yearA, m)
        currentDayNum  == CurrentDayNum(yearA, m, now)
        totalDaysInView == maxDays
        loop == DailyLoop(
                    [currentDated |-> WithDayIndex(currentExpenses, yearA, m),
                     previousDated |-> WithDayIndex(previousExpenses, yearB, m),
                     currentYear |-> yearA,
                     month |-> m,
                     maxDays |-> maxDays,
                     totalDaysInView |-> totalDaysInView,
                     currentDayNum |-> currentDayNum,
                     isCurrentYear |-> isCurrentYear],
                    1, totalDaysInView,
                    [cumulativeCurrent |-> 0,
                     cumulativePrevious |-> 0,
                     totalCurrentYearValue |-> 0,
                     dailyData |-> <<>>])
        totalCurrentYear  == TotalCurrentYearOf(isCurrentYear,
                                 loop.totalCurrentYearValue, loop.cumulativeCurrent)
        totalPreviousYear == MathRound(loop.cumulativePrevious)
        totalWeeksForAvg  == IF Truthy(m) THEN MaxWeekOfMonth ELSE WeeksInYearView
    IN [totalCurrentYear |-> totalCurrentYear,
        totalPreviousYear |-> totalPreviousYear,
        difference |-> totalCurrentYear - totalPreviousYear,
        percentChange |-> PercentChangeOf(totalCurrentYear, totalPreviousYear),
        dailyData |-> loop.dailyData,
        topCategories |-> TopCategoriesOf(currentExpenses, previousExpenses),
        allCategoryNames |-> allCategoryNames,
        currentWeek |-> currentWeekNum,
        totalWeeksInView |-> totalWeeksForAvg,
        currentYearWeeklyAvg |->
            IF currentWeekNum > 0 THEN RoundDiv(totalCurrentYear, currentWeekNum) ELSE 0,
        previousYearWeeklyAvg |->
            IF totalWeeksForAvg > 0 THEN RoundDiv(totalPreviousYear, totalWeeksForAvg) ELSE 0,
        month |-> m,
        totalDaysInView |-> totalDaysInView,
        weeklyData |-> WeeklyDataOf(currentExpenses, previousExpenses, m),
        categoryTotals |-> CategoryTotalsOf(labelCurrent, allCategoryNames),
        categoryTotalsPreviousYear |-> CategoryTotalsOf(labelPrevious, allCategoryNames),
        currentDayNum |->
            IF isCurrentYear /\ (m = Null \/ isCurrentMonth)
            THEN Some(currentDayNum) ELSE Null]

----------------------------------------------------------------------------
(* Inputs of the bounded model *)

Tx(id, date, amount, category) ==
    [id |-> id, date |-> date, amount |-> amount, category_name |-> category,
     is_income |-> FALSE, exclude_from_totals |-> FALSE]

\* the last day of February of year y
LastOfFebruary(y) == <<y, 2, DaysInMonthOf(y, 2)>>

\* Transactions the budgeting API may hold for year y as period A ...
PoolA(y) ==
    << Tx(1, <<y, 2, 10>>,  "-50",   Some("Food")),
       Tx(2, <<y, 2, 20>>,  "-0.4",  Some("Food")),
       Tx(3, <<y, 2, 20>>,  "-75.5", Null),
       Tx(4, <<y, 12, 31>>, "-1000", Some("Rent")) >>

\* ... and as period B
PoolB(y) ==
    << Tx(11, <<y, 2, 10>>,      "-0.4", Some("Food")),
       Tx(12, <<y, 12, 31>>,     "-20",  Some("Rent")),
       Tx(13, LastOfFebruary(y), "-5",   Some("")) >>

\* Transactions that are not expenses (amounts that are not debits, income,
\* excluded from totals), next to ordinary ones
OddPoolA(y) ==
    << Tx(21, <<y, 2, 10>>, "-0",  Some("Food")),
       Tx(22, <<y, 2, 10>>, "abc", Some("Rent")),
       Tx(23, <<y, 2, 12>>, "-5",  Some("Food")),
       [Tx(24, <<y, 2, 12>>, "-50", Some("Food")) EXCEPT !.is_income = TRUE],
       Tx(25, <<y, 2, 10>>, "30",  Some("Music")) >>

OddPoolB(y) ==
    << Tx(31, <<y, 2, 10>>, "-0",  Null),
       Tx(32, <<y, 2, 11>>, "-20", Some("Rent")),
       [Tx(33, <<y, 2, 11>>, "-20", Some("Travel"))
            EXCEPT !.exclude_from_totals = TRUE] >>

\* A period-A list with one expense in each of the first k categories: the
\* category h spends 5, the others 2 and 1 in turn.
ManyCategories(y, k, h) ==
    MapSeq(Ascending(1..k),
           LAMBDA i : Tx(40 + i, <<y, 2, 10>>,
                         IF i = h THEN "-5" ELSE IF i % 2 = 0 THEN "-2" ELSE "-1",
                         Some(CategoryNames[i])))

\* the period-A lists with NumCats - 2 .. NumCats categories
ManyCategoryLists(y) ==
    { ManyCategories(y, k, h) : k \in (NumCats - 2)..NumCats, h \in 0..NumCats }

\* the period-B lists that go with them: empty, or one more category
OtherCategoryLists(y) ==
    { <<>>, << Tx(60, <<y, 2, 11>>, "-20", Some("Travel")) >> }

\* Arguments of direct calls: a period-A list may hold another month, another
\* year, and the three spellings of the uncategorized name ...
CallPoolA(y) ==
    << Tx(71, <<y, 2, 20>>,     "-0.4",  Some("gym")),
       Tx(72, <<y, 2, 10>>,     "-75.5", Null),
       Tx(73, <<y, 3, 5>>,      "-0.4",  Some("Uncategorized")),
       Tx(74, <<y - 1, 2, 10>>, "-20",   Some("Rent")) >>

\* ... and so may a period-B list
CallPoolB(y) ==
    << Tx(81, <<y, 2, 10>>,     "-5", Some("")),
       Tx(82, <<y + 1, 2, 11>>, "-5", Some("Food")) >>

\* the sub-lists of a pool with at most n transactions, in pool order
TxLists(pool, n) ==
    { MapSeq(Ascending(I), LAMBDA i : pool[i]) :
        I \in {J \in SUBSET (1..Len(pool)) : Cardinality(J) <= n} }

\* the compared years (yearA, yearB)
YearPairs == {<<2025, 2024>>, <<2024, 2023>>}

\* the dates at which the dashboard renders
Todays == {<<2024, 2, 10>>, <<2025, 2, 10>>, <<2025, 6, 15>>}

\* the earliest rendering date on which the year selector offers `year`
FirstDay(year) ==
    CHOOSE d \in Todays :
        /\ year <= d[1]
        /\ \A e \in Todays : year <= e[1] => (e = d \/ DateBefore(d, e))

\* selectedMonth: null (whole year) or a month
Months == {Null, Some(2)}

\* the month argument of direct calls: absent, a month, and values outside 1..12
CallMonths == {Null, Some(2), Some(0), Some(13), Some(-1)}

\* the exclusion argument of direct calls
CallExcludes == {{}, {"Uncategorized"}}

\* the excluded-category lists the filter is set to
ExcludeChoices == {{}, {"Food"}}

----------------------------------------------------------------------------
(* The dashboard render: every state change re-renders and recomputes the
   summary from the current arguments and the current date. *)

(* The parts of the dashboard are explored by separate specifications; a
   specification holds the variables of the other parts at these values. *)

\* no fetchTransactions call has been made
FetchAtRest ==
    /\ offset = 0
    /\ allFetched = <<>>
    /\ requests = <<>>
    /\ responses = <<>>
    /\ fetchPc = "idle"
    /\ fetchResult = Null
    /\ fetchError = Null

\* the useState initial values of the connect flow, empty storage
ConnectAtRest ==
    /\ apiKey = Null
    /\ storedKey = Null
    /\ connectError = Null
    /\ isConnecting = FALSE
    /\ pendingKeys = {}
    /\ validatedKeys = {}
    /\ lastEvent = "none"

\* processTransactions has not been called
EngineAtRest ==
    /\ currentYearTx = <<>>
    /\ previousYearTx = <<>>
    /\ currentYear = 2025
    /\ previousYear = 2024
    /\ month = Null
    /\ excludeCategoryNames = {}
    /\ today = <<2025, 1, 1>>
    /\ summary = Null

Render(curTx, prevTx, yearA, yearB, m, excludeNames, now) ==
    ProcessTransactions(curTx, prevTx, yearA, yearB, m, excludeNames, now)

Init ==
    /\ \E yp \in YearPairs :
         /\ currentYear = yp[1]
         /\ previousYear = yp[2]
         /\ currentYearTx \in TxLists(PoolA(yp[1]), MaxTxA)
         /\ previousYearTx \in TxLists(PoolB(yp[2]), MaxTxB)
         \* the year selectors offer the present year and the years before
         \* it: the first render is on the earliest date that allows yearA
         /\ today = FirstDay(yp[1])
    /\ month = Null
    /\ excludeCategoryNames = {}
    /\ FetchAtRest
    /\ ConnectAtRest
    /\ summary = Render(currentYearTx, previousYearTx, currentYear, previousYear,
                        month, excludeCategoryNames, today)

\* setSelectedMonth
SelectMonth ==
    /\ \E m \in Months :
         /\ m # month
         /\ month' = m
         /\ summary' = Render(currentYearTx, previousYearTx, currentYear,
                              previousYear, m, excludeCategoryNames, today)
    /\ UNCHANGED <<currentYearTx, previousYearTx, currentYear, previousYear,
                   excludeCategoryNames, today>>
    /\ UNCHANGED <<fetchVars, connectVars>>

\* setExcludedCategories
SetExcludedCategories ==
    /\ \E e \in ExcludeChoices :
         /\ e # excludeCategoryNames
         /\ excludeCategoryNames' = e
         /\ summary' = Render(currentYearTx, previousYearTx, currentYear,
                              previousYear, month, e, today)
    /\ UNCHANGED <<currentYearTx, previousYearTx, currentYear, previousYear,
                   month, today>>
    /\ UNCHANGED <<fetchVars, connectVars>>

\* a render on a later day
RenderLater ==
    /\ \E d \in Todays :
         /\ DateBefore(today, d)
         /\ today' = d
         /\ summary' = Render(currentYearTx, previousYearTx, currentYear,
                              previousYear, month, excludeCategoryNames, d)
    /\ UNCHANGED <<currentYearTx, previousYearTx, currentYear, previousYear,
                   month, excludeCategoryNames>>
    /\ UNCHANGED <<fetchVars, connectVars>>

\* first render on lists with amounts that are not debits
InitOdd ==
    /\ \E yp \in YearPairs :
         /\ currentYear = yp[1]
         /\ previousYear = yp[2]
         /\ currentYearTx \in TxLists(OddPoolA(yp[1]), MaxTxA)
         /\ previousYearTx \in TxLists(OddPoolB(yp[2]), MaxTxB)
         /\ today = FirstDay(yp[1])
    /\ month = Null
    /\ excludeCategoryNames = {}
    /\ FetchAtRest
    /\ ConnectAtRest
    /\ summary = Render(currentYearTx, previousYearTx, currentYear, previousYear,
                        month, excludeCategoryNames, today)

\* first render on lists with about TopN categories
InitTop ==
    /\ currentYear = 2025
    /\ previousYear = 2024
    /\ currentYearTx \in ManyCategoryLists(2025)
    /\ previousYearTx \in OtherCategoryLists(2024)
    /\ today = FirstDay(2025)
    /\ month = Null
    /\ excludeCategoryNames = {}
    /\ FetchAtRest
    /\ ConnectAtRest
    /\ summary = Render(currentYearTx, previousYearTx, currentYear, previousYear,
                        month, excludeCategoryNames, today)

\* first direct call of processTransactions
InitCall ==
    /\ currentYear = 2024
    /\ previousYear = 2023
    /\ currentYearTx \in TxLists(CallPoolA(2024), MaxTxA)
    /\ previousYearTx \in TxLists(CallPoolB(2023), MaxTxB)
    /\ today = FirstDay(2024)
    /\ month = Null
    /\ excludeCategoryNames = {}
    /\ FetchAtRest
    /\ ConnectAtRest
    /\ summary = ProcessTransactions(currentYearTx, previousYearTx, currentYear,
                                     previousYear, month, excludeCategoryNames, today)

\* a call with another month argument
CallWithMonth ==
    /\ \E m \in CallMonths :
         /\ m # month
         /\ month' = m
         /\ summary' = ProcessTransactions(currentYearTx, previousYearTx, currentYear,
                                           previousYear, m, excludeCategoryNames, today)
    /\ UNCHANGED <<currentYearTx, previousYearTx, currentYear, previousYear,
                   excludeCategoryNames, today>>
    /\ UNCHANGED <<fetchVars, connectVars>>

\* a call with another exclusion argument
CallWithExclusion ==
    /\ \E e \in CallExcludes :
         /\ e # excludeCategoryNames
         /\ excludeCategoryNames' = e
         /\ summary' = ProcessTransactions(currentYearTx, previousYearTx, currentYear,
                                           previousYear, month, e, today)
    /\ UNCHANGED <<currentYearTx, previousYearTx, currentYear, previousYear,
                   month, today>>
    /\ UNCHANGED <<fetchVars, connectVars>>

Next == SelectMonth \/ SetExcludedCategories \/ RenderLater

Spec == Init /\ [][Next]_vars

NextCall == CallWithMonth \/ CallWithExclusion \/ RenderLater

SpecCall == InitCall /\ [][NextCall]_vars

SpecOdd == InitOdd /\ [][Next]_vars

SpecTop == InitTop /\ [][Next]_vars

----------------------------------------------------------------------------
(* Properties *)

\* the arguments of the last render as the engine sees them: period lists
\* after month restriction, expense filter and category exclusion
MonthRestricted(tx, year) ==
    IF Truthy(month) THEN filterByMonth(tx, year, month[1]) ELSE tx

ExpensesA ==
    excludeByCategory(filterExpenses(MonthRestricted(currentYearTx, currentYear)),
                      excludeCategoryNames)

ExpensesB ==
    excludeByCategory(filterExpenses(MonthRestricted(previousYearTx, previousYear)),
                      excludeCategoryNames)

\* yearA is the present year and, in month view, the month the present month
ViewIsPresent ==
    today[1] = currentYear /\ (~Truthy(month) \/ today[2] = month[1])

\* today's day index in the view
TodayIndex == IF Truthy(month) THEN today[3] ELSE Ordinal(today)

\* the sum of f(entry) over dailyData[lo..hi]
RECURSIVE SumDays(_, _, _)
SumDays(f(_), lo, hi) ==
    IF lo > hi THEN 0
    ELSE IF lo = hi THEN f(summary.dailyData[lo])
    ELSE LET mid == (lo + hi) \div 2
         IN SumDays(f, lo, mid) + SumDays(f, mid + 1, hi)

CurrentDaySpendSum(lo, hi) == SumDays(LAMBDA e : e.currentDaySpend, lo, hi)
PreviousDaySpendSum(lo, hi) == SumDays(LAMBDA e : e.previousDaySpend, lo, hi)

LastDay == summary.dailyData[Len(summary.dailyData)]

\* C1: in dailyData the cumulative series of each period never decreases
\* from one day to the next.
C1_CumulativeNonDecreasing ==
    \A i \in 1..(Len(summary.dailyData) - 1) :
        /\ summary.dailyData[i].currentYear <= summary.dailyData[i + 1].currentYear
        /\ summary.dailyData[i].previousYear <= summary.dailyData[i + 1].previousYear

\* C1 witness: both series rise somewhere, in a view with a today marker
\* before its last day.
C1_Witness ==
    /\ summary.currentDayNum # Null
    /\ summary.currentDayNum[1] < summary.totalDaysInView
    /\ \E i \in 1..(Len(summary.dailyData) - 1) :
         summary.dailyData[i].currentYear < summary.dailyData[i + 1].currentYear
    /\ \E i \in 1..(Len(summary.dailyData) - 1) :
         summary.dailyData[i].previousYear < summary.dailyData[i + 1].previousYear

\* C2 as claimed: for each period the per-day spends of all days of the view
\* add up to the last cumulative value, within 1 unit per day.
C2_DaySpendsSumToFinal ==
    LET n == summary.totalDaysInView
    IN /\ AbsInt(CurrentDaySpendSum(1, n) - LastDay.currentYear) <= n
       /\ AbsInt(PreviousDaySpendSum(1, n) - LastDay.previousYear) <= n

\* the last day whose period-A spend enters the cumulative series
LastCountedDay ==
    IF summary.currentDayNum # Null
    THEN summary.currentDayNum[1]
    ELSE summary.totalDaysInView

\* C2 amended: period B as claimed; for period A the per-day spends of the
\* days up to the today marker (all days when there is no marker) add up to
\* the last cumulative value, within 1 unit per day.
C2_DaySpendsSumToFinalUpToMarker ==
    LET n == summary.totalDaysInView
        d == LastCountedDay
    IN /\ AbsInt(CurrentDaySpendSum(1, d) - LastDay.currentYear) <= d
       /\ AbsInt(PreviousDaySpendSum(1, n) - LastDay.previousYear) <= n

\* C2 witness: a view with a today marker, spend up to the marker and spend
\* after it.
C2_Witness ==
    /\ summary.currentDayNum # Null
    /\ CurrentDaySpendSum(1, summary.currentDayNum[1]) > 0
    /\ CurrentDaySpendSum(summary.currentDayNum[1] + 1, summary.totalDaysInView) > 0
    /\ LastDay.previousYear > 0

\* C3: totalPreviousYear is the once-rounded sum of all period-B expenses
\* dated within yearB.
C3_TotalPreviousYearIsFullSum ==
    summary.totalPreviousYear =
        MathRound(SumAmounts(SelectSeq(ExpensesB,
                                       LAMBDA t : t.date[1] = previousYear)))

\* the once-rounded period-A spend on the days 1..k of the view
SpendAThrough(k) ==
    MathRound(SumAmounts(SelectSeq(ExpensesA, LAMBDA t :
        LET d == DayIndex(t.date, currentYear, month) IN d >= 1 /\ d <= k)))

\* C4: totalCurrentYear is the period-A cumulative value at the today marker
\* when the view is the present one (spend after today is not counted), and
\* the sum over all days of the view otherwise.
C4_TotalCurrentYear ==
    IF ViewIsPresent
    THEN /\ summary.totalCurrentYear = summary.dailyData[TodayIndex].currentYear
         /\ summary.totalCurrentYear = SpendAThrough(TodayIndex)
    ELSE summary.totalCurrentYear = SpendAThrough(summary.totalDaysInView)

\* C4 witness: a present view with spend up to today and spend after today.
C4_Witness ==
    /\ ViewIsPresent
    /\ summary.totalCurrentYear > 0
    /\ SpendAThrough(summary.totalDaysInView) > summary.totalCurrentYear

\* C5: changing the exclusion list alone never changes categoryTotals,
\* categoryTotalsPreviousYear or allCategoryNames.
C5_ExclusionKeepsLabels ==
    [][excludeCategoryNames' # excludeCategoryNames =>
         /\ summary'.categoryTotals = summary.categoryTotals
         /\ summary'.categoryTotalsPreviousYear = summary.categoryTotalsPreviousYear
         /\ summary'.allCategoryNames = summary.allCategoryNames]_vars

\* C5 witness: an exclusion that removed a category with spend in both
\* periods from the top categories while its labels stay.
C5_Witness ==
    /\ \E name \in excludeCategoryNames :
         /\ name \in DOMAIN summary.categoryTotals
         /\ summary.categoryTotals[name] > 0
         /\ summary.categoryTotalsPreviousYear[name] >= 0
         /\ \A i \in 1..Len(summary.topCategories) :
              summary.topCategories[i].name # name
    /\ summary.totalCurrentYear > 0

\* C6: percentChange is null exactly when totalPreviousYear is 0, and else
\* is (totalCurrentYear - totalPreviousYear) / totalPreviousYear * 100.
C6_PercentChange ==
    /\ summary.percentChange = Null <=> summary.totalPreviousYear = 0
    /\ summary.percentChange # Null =>
         /\ summary.percentChange[1].den > 0
         /\ summary.percentChange[1].num * summary.totalPreviousYear =
                (summary.totalCurrentYear - summary.totalPreviousYear) * 100
                    * summary.percentChange[1].den

\* C6 witness: a numeric percent change over a non-zero baseline.
C6_Witness ==
    /\ summary.totalPreviousYear > 0
    /\ summary.totalCurrentYear > summary.totalPreviousYear
    /\ summary.percentChange # Null

\* C7: a topCategories entry has percentChange null exactly when its exposed
\* previousYear amount is 0.
C7_CategoryPercentNullIffZero ==
    \A i \in 1..Len(summary.topCategories) :
        summary.topCategories[i].percentChange = Null
            <=> summary.topCategories[i].previousYear = 0

\* C9 as claimed: a render on another date with the same arguments returns
\* the same summary.
C9_SameSummaryOnAnyDate ==
    [][today' # today => summary' = summary]_vars

\* C9 amended: a render on another date with the same arguments returns the
\* same summary when neither date falls in yearA.
C9_SameSummaryOutsideYearA ==
    [][(today' # today /\ today[1] # currentYear /\ today'[1] # currentYear)
           => summary' = summary]_vars

\* C9 witness: a month view of a past year rendered on a later date that
\* falls in another month than the first render.
C9_Witness ==
    /\ today = <<2025, 6, 15>>
    /\ currentYear = 2024
    /\ month = Some(2)
    /\ summary.totalCurrentYear > 0

\* a transaction that passes the income and exclude-from-totals checks with
\* an amount of "-0" or one that does not parse
ZeroOrUnparsed(t) ==
    /\ ~t.is_income
    /\ ~t.exclude_from_totals
    /\ (t.amount = "-0" \/ parseFloat(t.amount).nan)

\* t is a line item of its week's entry, in the list of the given period
ListedInWeek(t, inCurrent) ==
    \E i \in 1..Len(summary.weeklyData) :
        LET w == summary.weeklyData[i]
        IN /\ w.week = WeekOf(t.date, month)
           /\ IF inCurrent
              THEN t \in Range(w.currentYearTransactions) /\ w.currentYearCount >= 1
              ELSE t \in Range(w.previousYearTransactions) /\ w.previousYearCount >= 1

\* t is a line item of some entry, in either list
ListedAnywhere(t) ==
    \E i \in 1..Len(summary.weeklyData) :
        \/ t \in Range(summary.weeklyData[i].currentYearTransactions)
        \/ t \in Range(summary.weeklyData[i].previousYearTransactions)

\* C8 as claimed: a "-0" or unparsable transaction of the view whose category
\* is not excluded is a counted line item of its week.
C8_ZeroAmountIsListed ==
    /\ \A t \in Range(MonthRestricted(currentYearTx, currentYear)) :
         (ZeroOrUnparsed(t) /\ CategoryOf(t) \notin excludeCategoryNames)
             => ListedInWeek(t, TRUE)
    /\ \A t \in Range(MonthRestricted(previousYearTx, previousYear)) :
         (ZeroOrUnparsed(t) /\ CategoryOf(t) \notin excludeCategoryNames)
             => ListedInWeek(t, FALSE)

\* C8 amended: a "-0" or unparsable transaction contributes to nothing: it is
\* no line item of any week, and the summary is the one of the same lists
\* without such transactions.
C8_ZeroAmountIsDropped ==
    /\ \A t \in Range(currentYearTx) \cup Range(previousYearTx) :
         ZeroOrUnparsed(t) => ~ListedAnywhere(t)
    /\ summary =
         ProcessTransactions(
             SelectSeq(currentYearTx, LAMBDA t : ~ZeroOrUnparsed(t)),
             SelectSeq(previousYearTx, LAMBDA t : ~ZeroOrUnparsed(t)),
             currentYear, previousYear, month, excludeCategoryNames, today)

\* C8 witness: a "-0" and an unparsable transaction in a view whose weekly
\* data lists an ordinary expense of the same period.
C8_Witness ==
    /\ \E t \in Range(MonthRestricted(currentYearTx, currentYear)) :
         ZeroOrUnparsed(t) /\ t.amount = "-0"
             /\ CategoryOf(t) \notin excludeCategoryNames
    /\ \E t \in Range(MonthRestricted(previousYearTx, previousYear)) :
         ZeroOrUnparsed(t) /\ CategoryOf(t) \notin excludeCategoryNames
    /\ \E i \in 1..Len(summary.weeklyData) :
         summary.weeklyData[i].currentYearCount = 1

\* the rounded period-A amount of a category, as topCategories exposes it
ExposedAmountA(name) == MathRound(CategorySpendOf(ExpensesA, name))

\* C10: topCategories has at most 8 entries, in non-increasing order of
\* currentYear, and no category left out has a larger period-A amount than
\* the last entry.
C10_TopCategories ==
    LET top    == summary.topCategories
        listed == {top[i].name : i \in 1..Len(top)}
        all    == {CategoryOf(t) : t \in Range(ExpensesA) \cup Range(ExpensesB)}
    IN /\ Len(top) <= TopN
       /\ \A i, j \in 1..Len(top) : i < j => top[i].currentYear >= top[j].currentYear
       /\ \A name \in all \ listed :
            /\ Len(top) = TopN
            /\ ExposedAmountA(name) <= top[Len(top)].currentYear

\* C10 witness: more than 8 categories, amounts that differ among the listed
\* entries, and a category left out.
C10_Witness ==
    LET top == summary.topCategories
        all == {CategoryOf(t) : t \in Range(ExpensesA) \cup Range(ExpensesB)}
    IN /\ Cardinality(all) > TopN
       /\ Len(top) = TopN
       /\ top[1].currentYear > top[TopN].currentYear
       /\ top[TopN].currentYear > 0

\* a month argument in 1..12
ValidMonth == month # Null /\ month[1] \in 1..12

\* t is dated in month m of `year`
InMonthOf(t, year, m) == t.date[1] = year /\ t.date[2] = m

\* the line items of all weeks, of period A and of period B
WeeklyItemsA ==
    UNION {Range(summary.weeklyData[i].currentYearTransactions) :
              i \in 1..Len(summary.weeklyData)}

WeeklyItemsB ==
    UNION {Range(summary.weeklyData[i].previousYearTransactions) :
              i \in 1..Len(summary.weeklyData)}

\* C11: with a month m in 1..12 the summary is the one of the transactions
\* dated in month m of yearA (period A) and in month m of yearB (period B):
\* no other transaction contributes, and every weekly line item is dated in
\* month m of its own year.
C11_MonthRestrictsEachPeriod ==
    ValidMonth =>
        /\ summary =
             ProcessTransactions(
                 SelectSeq(currentYearTx,
                           LAMBDA t : InMonthOf(t, currentYear, month[1])),
                 SelectSeq(previousYearTx,
                           LAMBDA t : InMonthOf(t, previousYear, month[1])),
                 currentYear, previousYear, month, excludeCategoryNames, today)
        /\ \A t \in WeeklyItemsA : InMonthOf(t, currentYear, month[1])
        /\ \A t \in WeeklyItemsB : InMonthOf(t, previousYear, month[1])

\* C11 witness: a month view whose lists hold, for each period, a transaction
\* of the same month in another year, and period A has spend in the month.
C11_Witness ==
    /\ ValidMonth
    /\ \E t \in Range(currentYearTx) :
         t.date[1] # currentYear /\ t.date[2] = month[1]
    /\ \E t \in Range(previousYearTx) :
         t.date[1] # previousYear /\ t.date[2] = month[1]
    /\ summary.totalCurrentYear > 0
    /\ WeeklyItemsA # {}

\* income, excluded from totals, or an amount that is zero or positive
NotAnExpense(t) ==
    \/ t.is_income
    \/ t.exclude_from_totals
    \/ (~parseFloat(t.amount).nan /\ parseFloat(t.amount).val >= 0)

\* C12: a transaction that is income, excluded from totals or of non-negative
\* amount contributes to no output: the summary is the one of the lists
\* without such transactions, and none is a weekly line item.
C12_OnlyExpensesAggregated ==
    /\ summary =
         ProcessTransactions(
             SelectSeq(currentYearTx, LAMBDA t : ~NotAnExpense(t)),
             SelectSeq(previousYearTx, LAMBDA t : ~NotAnExpense(t)),
             currentYear, previousYear, month, excludeCategoryNames, today)
    /\ \A t \in WeeklyItemsA \cup WeeklyItemsB : ~NotAnExpense(t)
    /\ \A t \in Range(currentYearTx) \cup Range(previousYearTx) :
         (NotAnExpense(t) /\ \A u \in Range(currentYearTx) \cup Range(previousYearTx) :
                                ~NotAnExpense(u) => CategoryOf(u) # CategoryOf(t))
             => CategoryOf(t) \notin Range(summary.allCategoryNames)

\* C12 witness: period A holds an income transaction of negative amount next
\* to an expense, period B one excluded from totals; only the expense is
\* listed.
C12_Witness ==
    /\ \E t \in Range(currentYearTx) :
         t.is_income /\ IsNegative(parseFloat(t.amount))
    /\ \E t \in Range(previousYearTx) :
         t.exclude_from_totals /\ IsNegative(parseFloat(t.amount))
    /\ Cardinality(WeeklyItemsA) = 1
    /\ summary.totalCurrentYear > 0

\* the last day whose period-A spend is accumulated: the current-day index
\* when yearA is the present year, else the last day of the view
LastAccumulatedDay ==
    IF IsCurrentYear(currentYear, today)
    THEN CurrentDayNum(currentYear, month, today)
    ELSE MaxDays(currentYear, month)

\* the once-rounded period-B spend on the days 1..k of the view
SpendBThrough(k) ==
    MathRound(SumAmounts(SelectSeq(ExpensesB, LAMBDA t :
        LET d == DayIndex(t.date, previousYear, month) IN d >= 1 /\ d <= k)))

\* C13: every cumulative value of dailyData is the unrounded running sum
\* through that day rounded once, and the two totals are the unrounded sums
\* of the contributing expenses rounded once.
C13_RoundedOnce ==
    /\ \A d \in 1..Len(summary.dailyData) :
         /\ summary.dailyData[d].currentYear
                = SpendAThrough(Min(d, LastAccumulatedDay))
         /\ summary.dailyData[d].previousYear = SpendBThrough(d)
    /\ summary.totalCurrentYear = SpendAThrough(LastAccumulatedDay)
    /\ summary.totalPreviousYear = SpendBThrough(summary.totalDaysInView)

\* C13 witness: two period-A expenses of 0.4 on different days: each day's
\* spend rounds to 0 and the total to 1.
C13_Witness ==
    /\ summary.totalCurrentYear = 1
    /\ CurrentDaySpendSum(1, summary.totalDaysInView) = 0
    /\ LastDay.currentYear = 1

\* C14: with a month argument outside 1..12 both totals are 0 and
\* topCategories and weeklyData are empty.
C14_InvalidMonthGivesEmpty ==
    (month # Null /\ month[1] \notin 1..12) =>
        /\ summary.totalCurrentYear = 0
        /\ summary.totalPreviousYear = 0
        /\ Len(summary.topCategories) = 0
        /\ Len(summary.weeklyData) = 0

\* a category that is null, empty or literally "Uncategorized"
NoCategory(t) ==
    t.category_name \in {Null, Some(""), Some("Uncategorized")}

\* the expenses of each period before category exclusion
AllExpensesA == filterExpenses(MonthRestricted(currentYearTx, currentYear))
AllExpensesB == filterExpenses(MonthRestricted(previousYearTx, previousYear))

\* the rounded spend of the expenses of a list that have no category
NoCategorySpend(expenses) ==
    MathRound(SumAmounts(SelectSeq(expenses, NoCategory)))

\* the rounded no-category spend of a period on day d of the view
NoCategorySpendOn(expenses, year, d) ==
    MathRound(SumAmounts(SelectSeq(expenses, LAMBDA t :
        NoCategory(t) /\ DayIndex(t.date, year, month) = d)))

\* the entries of a list that are named "Uncategorized"
UncategorizedIn(entries) ==
    SelectSeq(entries, LAMBDA e : e.name = "Uncategorized")

\* every category name that appears in a category-keyed output
OutputCategoryKeys ==
    Range(summary.allCategoryNames)
    \cup DOMAIN summary.categoryTotals
    \cup DOMAIN summary.categoryTotalsPreviousYear
    \cup {summary.topCategories[i].name : i \in 1..Len(summary.topCategories)}
    \cup UNION {
         {e.currentDayCategoryBreakdown[i].name :
              i \in 1..Len(e.currentDayCategoryBreakdown)}
         \cup {e.previousDayCategoryBreakdown[i].name :
              i \in 1..Len(e.previousDayCategoryBreakdown)}
         \cup {e.differenceDrivers[i].name : i \in 1..Len(e.differenceDrivers)}
         : e \in Range(summary.dailyData)}

\* C15: expenses whose category is null, empty or "Uncategorized" are
\* aggregated under the one name "Uncategorized" in allCategoryNames, both
\* categoryTotals maps, topCategories and the per-day breakdowns and
\* drivers; excluding "Uncategorized" removes them all; no output has an
\* empty category key.
C15_OneUncategorizedKey ==
    LET anyA == \E t \in Range(AllExpensesA) : NoCategory(t)
        anyB == \E t \in Range(AllExpensesB) : NoCategory(t)
        top  == UncategorizedIn(summary.topCategories)
    IN /\ "" \notin OutputCategoryKeys
       /\ (anyA \/ anyB) =>
            /\ "Uncategorized" \in Range(summary.allCategoryNames)
            /\ summary.categoryTotals["Uncategorized"] = NoCategorySpend(AllExpensesA)
            /\ summary.categoryTotalsPreviousYear["Uncategorized"]
                   = NoCategorySpend(AllExpensesB)
       /\ IF "Uncategorized" \in excludeCategoryNames
          THEN /\ Len(top) = 0
               /\ \A t \in WeeklyItemsA \cup WeeklyItemsB : ~NoCategory(t)
               /\ \A d \in 1..Len(summary.dailyData) :
                    /\ Len(UncategorizedIn(
                            summary.dailyData[d].currentDayCategoryBreakdown)) = 0
                    /\ Len(UncategorizedIn(
                            summary.dailyData[d].previousDayCategoryBreakdown)) = 0
                    /\ Len(UncategorizedIn(summary.dailyData[d].differenceDrivers)) = 0
          ELSE /\ (anyA \/ anyB) =>
                    /\ Len(top) = 1
                    /\ top[1].currentYear = NoCategorySpend(AllExpensesA)
                    /\ top[1].previousYear = NoCategorySpend(AllExpensesB)
               /\ \A d \in 1..Len(summary.dailyData) :
                    LET ua == NoCategorySpendOn(AllExpensesA, currentYear, d)
                        ub == NoCategorySpendOn(AllExpensesB, previousYear, d)
                        ba == UncategorizedIn(
                                 summary.dailyData[d].currentDayCategoryBreakdown)
                        bb == UncategorizedIn(
                                 summary.dailyData[d].previousDayCategoryBreakdown)
                        dr == UncategorizedIn(summary.dailyData[d].differenceDrivers)
                    IN /\ IF ua > 0 THEN Len(ba) = 1 /\ ba[1].amount = ua
                                    ELSE Len(ba) = 0
                       /\ IF ub > 0 THEN Len(bb) = 1 /\ bb[1].amount = ub
                                    ELSE Len(bb) = 0
                       /\ IF ua > 0 \/ ub > 0
                          THEN /\ Len(dr) = 1
                               /\ dr[1].currentYear = ua
                               /\ dr[1].previousYear = ub
                          ELSE Len(dr) = 0

\* C15 witness: period A has an expense of null category and one named
\* "Uncategorized", period B one of empty category; topCategories joins
\* them in one entry and a day's drivers join the null and the empty one.
C15_Witness ==
    /\ \E t \in Range(AllExpensesA) : t.category_name = Null
    /\ \E t \in Range(AllExpensesA) : t.category_name = Some("Uncategorized")
    /\ \E t \in Range(AllExpensesB) : t.category_name = Some("")
    /\ Len(UncategorizedIn(summary.topCategories)) = 1
    /\ UncategorizedIn(summary.topCategories)[1].currentYear = 76
    /\ UncategorizedIn(summary.topCategories)[1].previousYear = 5
    /\ \E d \in 1..Len(summary.dailyData) :
         \E i \in 1..Len(summary.dailyData[d].differenceDrivers) :
             LET e == summary.dailyData[d].differenceDrivers[i]
             IN e.name = "Uncategorized" /\ e.currentYear > 0 /\ e.previousYear > 0

\* C16: with a current-day marker, the period-A cumulative value of every
\* day after the marker is the value at the marker, and the period-B
\* cumulative value of every day is the spend through that day.
C16_HeldFlatAfterMarker ==
    /\ summary.currentDayNum # Null =>
         \A d \in (summary.currentDayNum[1] + 1)..Len(summary.dailyData) :
             summary.dailyData[d].currentYear
                 = summary.dailyData[summary.currentDayNum[1]].currentYear
    /\ today[1] = currentYear =>
         \A d \in 1..Len(summary.dailyData) :
             summary.dailyData[d].previousYear = SpendBThrough(d)

\* C16 witness: yearA is the present year, both periods have spend on days
\* after the marker, and only period B goes on rising.
C16_Witness ==
    /\ summary.currentDayNum # Null
    /\ summary.currentDayNum[1] < summary.totalDaysInView
    /\ CurrentDaySpendSum(summary.currentDayNum[1] + 1, summary.totalDaysInView) > 0
    /\ PreviousDaySpendSum(summary.currentDayNum[1] + 1, summary.totalDaysInView) > 0
    /\ LastDay.currentYear = summary.dailyData[summary.currentDayNum[1]].currentYear
    /\ LastDay.previousYear > summary.dailyData[summary.currentDayNum[1]].previousYear

\* the expenses of a period dated on day d of the view
ExpensesOfDay(expenses, year, d) ==
    SelectSeq(expenses, LAMBDA t : DayIndex(t.date, year, month) = d)

\* C17: on every day of the view, before or after today, the day's spends,
\* category breakdowns and difference drivers are those of the expenses
\* dated on that day; they are therefore the same on every current date.
C17_PerDayFieldsOfThatDayOnly ==
    \A d \in 1..Len(summary.dailyData) :
        LET e == summary.dailyData[d]
            a == ExpensesOfDay(ExpensesA, currentYear, d)
            b == ExpensesOfDay(ExpensesB, previousYear, d)
        IN /\ e.currentDaySpend = MathRound(SumAmounts(a))
           /\ e.previousDaySpend = MathRound(SumAmounts(b))
           /\ e.currentDayCategoryBreakdown
                  = toDailyCategoryBreakdown(DayCategorySpend(a))
           /\ e.previousDayCategoryBreakdown
                  = toDailyCategoryBreakdown(DayCategorySpend(b))
           /\ e.differenceDrivers
                  = toDifferenceDrivers(DayCategorySpend(a), DayCategorySpend(b))

\* C17 witness: a day after the marker reports its period-A spend, breakdown
\* and driver although the cumulative series no longer counts it.
C17_Witness ==
    /\ summary.currentDayNum # Null
    /\ \E d \in (summary.currentDayNum[1] + 1)..Len(summary.dailyData) :
         /\ summary.dailyData[d].currentDaySpend > 0
         /\ Len(summary.dailyData[d].currentDayCategoryBreakdown) > 0
         /\ Len(summary.dailyData[d].differenceDrivers) > 0
         /\ summary.dailyData[d].currentYear
                = summary.dailyData[summary.currentDayNum[1]].currentYear

\* the number of days of the view: of the month in yearA, or of yearA
DaysOfView ==
    IF month # Null
    THEN DaysInMonthOf(currentYear, month[1])
    ELSE IF isLeapYear(currentYear) THEN 366 ELSE 365

C19_CurrentDayMarker ==
    IF ViewIsPresent
    THEN /\ summary.currentDayNum # Null
         /\ summary.currentDayNum[1] \in 1..summary.totalDaysInView
         /\ summary.currentDayNum[1] = TodayIndex
    ELSE /\ summary.currentDayNum = Null
         /\ LastDay.currentYear = SpendAThrough(summary.totalDaysInView)
         /\ summary.totalCurrentYear = SpendAThrough(summary.totalDaysInView)

\* C19 witness: yearA is the present year and a month other than the
\* present one is shown: no marker, and the month's spend is counted whole.
C19_Witness ==
    /\ today[1] = currentYear
    /\ month # Null /\ month[1] # today[2]
    /\ summary.currentDayNum = Null
    /\ summary.totalCurrentYear > 0

\* the normalized category names of the expenses of both periods before
\* category exclusion
NamesBeforeExclusion ==
    {CategoryOf(t) : t \in Range(AllExpensesA) \cup Range(AllExpensesB)}

\* allCategoryNames lists exactly those names once each, both categoryTotals
\* maps have exactly those keys, and a category absent from a period has 0
\* in that period's map
NamesAndKeysAreTheUnion ==
    /\ Range(summary.allCategoryNames) = NamesBeforeExclusion
    /\ Len(summary.allCategoryNames) = Cardinality(NamesBeforeExclusion)
    /\ DOMAIN summary.categoryTotals = NamesBeforeExclusion
    /\ DOMAIN summary.categoryTotalsPreviousYear = NamesBeforeExclusion
    /\ \A name \in NamesBeforeExclusion :
         /\ (\A t \in Range(AllExpensesA) : CategoryOf(t) # name)
                => summary.categoryTotals[name] = 0
         /\ (\A t \in Range(AllExpensesB) : CategoryOf(t) # name)
                => summary.categoryTotalsPreviousYear[name] = 0

\* C20 as claimed: allCategoryNames is the duplicate-free list of the names
\* before exclusion in ascending lexicographic (code unit) order, and both
\* categoryTotals maps have exactly these keys.
C20_NamesLexicographic ==
    /\ NamesAndKeysAreTheUnion
    /\ \A i, j \in 1..Len(summary.allCategoryNames) :
         i < j => CodeUnitBefore(summary.allCategoryNames[i],
                                 summary.allCategoryNames[j])

\* C20 amended: the same, in ascending order of localeCompare, which puts
\* "gym" before "Rent" and "Uncategorized".
C20_NamesInLocaleOrder ==
    /\ NamesAndKeysAreTheUnion
    /\ \A i, j \in 1..Len(summary.allCategoryNames) :
         i < j => LocaleBefore(summary.allCategoryNames[i],
                               summary.allCategoryNames[j])

\* C20 witness: "Uncategorized" is excluded and still listed, after "gym";
\* a category of period B alone has the total 0 for period A.
C20_Witness ==
    /\ "Uncategorized" \in excludeCategoryNames
    /\ \E i, j \in 1..Len(summary.allCategoryNames) :
         /\ i < j
         /\ summary.allCategoryNames[i] = "gym"
         /\ summary.allCategoryNames[j] = "Uncategorized"
    /\ \E name \in DOMAIN summary.categoryTotals :
         /\ summary.categoryTotals[name] = 0
         /\ summary.categoryTotalsPreviousYear[name] > 0

\* the arguments with every transaction of an excluded category deleted
WithoutExcluded(tx) ==
    SelectSeq(tx, LAMBDA t : CategoryOf(t) \notin excludeCategoryNames)

\* the category names of all per-day breakdown and driver entries
PerDayCategoryKeys ==
    UNION {
        {e.currentDayCategoryBreakdown[i].name :
             i \in 1..Len(e.currentDayCategoryBreakdown)}
        \cup {e.previousDayCategoryBreakdown[i].name :
             i \in 1..Len(e.previousDayCategoryBreakdown)}
        \cup {e.differenceDrivers[i].name : i \in 1..Len(e.differenceDrivers)}
        : e \in Range(summary.dailyData)}

\* C21: the totals, difference, percentChange, dailyData, topCategories and
\* weeklyData returned with an exclusion set are those returned without
\* exclusion for the lists with the excluded transactions deleted, and no
\* topCategories entry, per-day entry or weekly line item has an excluded
\* category.
C21_ExclusionIsDeletion ==
    LET r == ProcessTransactions(WithoutExcluded(currentYearTx),
                                 WithoutExcluded(previousYearTx),
                                 currentYear, previousYear, month, {}, today)
    IN /\ summary.totalCurrentYear = r.totalCurrentYear
       /\ summary.totalPreviousYear = r.totalPreviousYear
       /\ summary.difference = r.difference
       /\ summary.percentChange = r.percentChange
       /\ summary.dailyData = r.dailyData
       /\ summary.topCategories = r.topCategories
       /\ summary.weeklyData = r.weeklyData
       /\ \A i \in 1..Len(summary.topCategories) :
            summary.topCategories[i].name \notin excludeCategoryNames
       /\ PerDayCategoryKeys \cap excludeCategoryNames = {}
       /\ \A t \in WeeklyItemsA \cup WeeklyItemsB :
            CategoryOf(t) \notin excludeCategoryNames

\* C21 witness: "Uncategorized" is excluded, both periods have expenses
\* without category, and other expenses remain in the outputs.
C21_Witness ==
    /\ "Uncategorized" \in excludeCategoryNames
    /\ \E t \in Range(AllExpensesA) : NoCategory(t)
    /\ \E t \in Range(AllExpensesB) : NoCategory(t)
    /\ Len(summary.topCategories) > 0
    /\ WeeklyItemsA # {}

\* the dates of a list of transactions never go back
OldestFirst(tx) ==
    \A i, j \in 1..Len(tx) : i < j => ~DateBefore(tx[j].date, tx[i].date)

NonEmptyWeeks ==
    {WeekOf(t.date, month) : t \in Range(ExpensesA) \cup Range(ExpensesB)}

\* C23: the week keys of weeklyData are strictly ascending and are exactly
\* the weeks that hold an expense of period A or period B; every entry has a
\* line item in at least one period.
C23_WeekKeys ==
    /\ \A i, j \in 1..Len(summary.weeklyData) :
         i < j => summary.weeklyData[i].week < summary.weeklyData[j].week
    /\ {summary.weeklyData[i].week : i \in 1..Len(summary.weeklyData)} = NonEmptyWeeks
    /\ \A i \in 1..Len(summary.weeklyData) :
         \/ Len(summary.weeklyData[i].currentYearTransactions) > 0
         \/ Len(summary.weeklyData[i].previousYearTransactions) > 0

\* C23 witness: one week has expenses of period B alone, a later week of
\* period A alone.
C23_Witness ==
    \E i, j \in 1..Len(summary.weeklyData) :
        /\ i < j
        /\ summary.weeklyData[i].currentYearCount = 0
        /\ summary.weeklyData[i].previousYearCount > 0
        /\ summary.weeklyData[j].currentYearCount > 0
        /\ summary.weeklyData[j].previousYearCount = 0

----------------------------------------------------------------------------
(* The API client: request and the paginated fetchTransactions.

   A transaction is opaque to the client and is modelled by an integer
   identifier.  One action is the code between two suspension points of the
   async function. *)

\* const limit = 500
limit == 500

\* Most page requests of one fetchTransactions call the server answers with
\* a full page: by then it returns a short page or fails.
MaxRequests == 4

\* the lengths of the pages the server returns
PageLengths == {0, 1, limit - 1, limit}

\* the server's data may differ from one request to the next
Versions == {0, 1}

\* the page of k transactions the server holds at offset off
ServerPage(off, k, v) ==
    IF k = 0 THEN <<>> ELSE [i \in 1..k |-> v * 100000 + off + i]

\* the bodies of the successful responses to a request at offset off; the
\* `transactions` field may be missing
PageBodies(off) ==
    {[transactions |-> Some(ServerPage(off, k, v))] :
        k \in PageLengths, v \in Versions}
    \cup {[transactions |-> Null]}

\* the responses that make `request` throw: a status that is not ok, with
\* or without an `error` field in the body, and a failure of fetch itself
FailedResponses ==
    {[kind |-> "http", status |-> 401, error |-> Some("Unauthorized")],
     [kind |-> "http", status |-> 401, error |-> Some("")],
     [kind |-> "http", status |-> 500, error |-> Null],
     [kind |-> "network", status |-> 0, error |-> Null]}

\* `Lunch Money API error: ${res.status}`
StatusMessage(status) ==
    CASE status = 401 -> "Lunch Money API error: 401"
      [] status = 500 -> "Lunch Money API error: 500"
      [] OTHER -> "Lunch Money API error"

\* the message of the error `request` throws
RequestError(res) ==
    IF res.kind = "network" THEN "Failed to fetch"
    ELSE IF res.error # Null /\ res.error[1] # ""
         THEN res.error[1]
         ELSE StatusMessage(res.status)

\* the limit and offset parameters of the request path
PagePath(o) == [limit |-> limit, offset |-> o]

\* data.transactions || []
TransactionsOf(data) ==
    IF data.transactions = Null THEN <<>> ELSE data.transactions[1]

IsShortPage_OrFull(transactions) == Len(transactions) <= limit

\* if (transactions.length < limit) break
IsShortPage(transactions) == Len(transactions) < limit

\* offset += limit
NextOffset(o) == o + limit

\* fetchTransactions is called
InitFetch ==
    /\ EngineAtRest
    /\ ConnectAtRest
    /\ offset = 0
    /\ allFetched = <<>>
    /\ requests = <<>>
    /\ responses = <<>>
    /\ fetchPc = "request"
    /\ fetchResult = Null
    /\ fetchError = Null

\* the loop body up to `await request(path, apiKey)`
RequestPage ==
    /\ fetchPc = "request"
    /\ requests' = Append(requests, PagePath(offset))
    /\ fetchPc' = "await"
    /\ UNCHANGED <<offset, allFetched, responses, fetchResult, fetchError>>
    /\ UNCHANGED <<engineVars, connectVars>>

\* the request resolves: the rest of the loop body, and the return after a
\* short page
ReceivePage ==
    /\ fetchPc = "await"
    /\ \E data \in PageBodies(offset) :
         LET transactions == TransactionsOf(data) IN
           /\ allFetched' = allFetched \o transactions
           /\ responses' = Append(responses, transactions)
           /\ IF IsShortPage(transactions)
              THEN /\ fetchPc' = "returned"
                   /\ fetchResult' = Some(allFetched')
                   /\ offset' = offset
              ELSE /\ Len(requests) < MaxRequests
                   /\ offset' = NextOffset(offset)
                   /\ fetchPc' = "request"
                   /\ fetchResult' = fetchResult
    /\ UNCHANGED <<requests, fetchError>>
    /\ UNCHANGED <<engineVars, connectVars>>

\* the request throws: nothing catches it, the promise rejects
ReceiveFailure ==
    /\ fetchPc = "await"
    /\ \E res \in FailedResponses :
         fetchError' = Some(RequestError(res))
    /\ fetchPc' = "rejected"
    /\ UNCHANGED <<offset, allFetched, requests, responses, fetchResult>>
    /\ UNCHANGED <<engineVars, connectVars>>

NextFetch == RequestPage \/ ReceivePage \/ ReceiveFailure

SpecFetch == InitFetch /\ [][NextFetch]_vars

\* The server answers every request and the event loop resumes the function
\* when it does.
FairFetch == SpecFetch /\ WF_vars(NextFetch)

RECURSIVE Concat(_)
Concat(pages) ==
    IF Len(pages) = 0 THEN <<>> ELSE Head(pages) \o Concat(Tail(pages))

\* the promise has settled
FetchSettled == fetchPc \in {"returned", "rejected"}

\* the requests are for pages of `limit` at offsets 0, limit, 2 * limit, ...;
\* only the last page received is short and the call returns with it; the
\* value returned is the concatenation of the pages in request order; a
\* failed request rejects with an error and no list
PagesInOrder ==
    /\ \A i \in 1..Len(requests) :
         requests[i] = [limit |-> limit, offset |-> (i - 1) * limit]
    /\ Len(requests) =
         Len(responses) + (IF fetchPc \in {"await", "rejected"} THEN 1 ELSE 0)
    /\ \A i \in 1..Len(responses) :
         Len(responses[i]) < limit
           <=> (i = Len(responses) /\ fetchPc = "returned")
    /\ fetchPc = "returned" => fetchResult = Some(Concat(responses))
    /\ fetchPc # "returned" => fetchResult = Null
    /\ fetchPc = "rejected" <=> fetchError # Null

\* C24: fetchTransactions requests pages of 500 at offsets 0, 500, 1000, ...
\* in order, stops at the first page with fewer than 500 transactions and
\* returns the concatenation of the pages received in request order; it
\* terminates when the server returns a short page, and a failed page
\* request rejects with an error and returns no partial list.
C24_Pagination == []PagesInOrder /\ <>FetchSettled

C24_Witness ==
    /\ fetchPc = "returned"
    /\ Len(responses) = 3
    /\ Len(responses[3]) = limit - 1
    /\ Len(fetchResult[1]) = 3 * limit - 1
    /\ requests[3].offset = 1000

----------------------------------------------------------------------------
(* Several categories on one day, in both periods *)

\* Longest transaction list of period A and of period B in the one-day
\* specification.
MaxDayTxA == 3
MaxDayTxB == 2

\* Expenses of one day: two of one category, amounts that round to the same
\* value, a name in lower case, an amount that rounds to 0 ...
DayPoolA(y) ==
    << Tx(91, <<y, 2, 10>>, "-10",  Some("Food")),
       Tx(92, <<y, 2, 10>>, "-5.4", Some("Rent")),
       Tx(93, <<y, 2, 10>>, "-5",   Some("gym")),
       Tx(94, <<y, 2, 10>>, "-0.4", Some("Gas")),
       Tx(95, <<y, 2, 10>>, "-5",   Some("Food")) >>

\* ... and the same day of period B
DayPoolB(y) ==
    << Tx(96, <<y, 2, 10>>, "-5",    Some("Food")),
       Tx(97, <<y, 2, 10>>, "-5",    Some("Travel")),
       Tx(98, <<y, 2, 10>>, "-75.5", Some("Rent")) >>

\* first render on lists of one day
InitDay ==
    /\ currentYear = 2025
    /\ previousYear = 2024
    /\ currentYearTx \in TxLists(DayPoolA(2025), MaxDayTxA)
    /\ previousYearTx \in TxLists(DayPoolB(2024), MaxDayTxB)
    /\ today = FirstDay(2025)
    /\ month = Null
    /\ excludeCategoryNames = {}
    /\ FetchAtRest
    /\ ConnectAtRest
    /\ summary = Render(currentYearTx, previousYearTx, currentYear, previousYear,
                        month, excludeCategoryNames, today)

SpecDay == InitDay /\ [][Next]_vars

\* the rounded spend of a period on category `name` on day d of the view
RoundedDaySpend(expenses, year, d, name) ==
    MathRound(CategorySpendOf(ExpensesOfDay(expenses, year, d), name))

\* the order of two difference drivers
DriverBefore(a, b) ==
    \/ AbsInt(a.difference) > AbsInt(b.difference)
    \/ /\ AbsInt(a.difference) = AbsInt(b.difference)
       /\ a.currentYear + a.previousYear > b.currentYear + b.previousYear
    \/ /\ AbsInt(a.difference) = AbsInt(b.difference)
       /\ a.currentYear + a.previousYear = b.currentYear + b.previousYear
       /\ LocaleBefore(a.name, b.name)

\* C25: for every day, differenceDrivers lists exactly the categories whose
\* rounded spend on that day is positive in at least one period, each with
\* difference = currentYear - previousYear, ordered by descending absolute
\* difference, then descending currentYear + previousYear, then ascending
\* name.
C25_DifferenceDrivers ==
    \A d \in 1..Len(summary.dailyData) :
        LET D == summary.dailyData[d].differenceDrivers
            cy(name) == RoundedDaySpend(ExpensesA, currentYear, d, name)
            py(name) == RoundedDaySpend(ExpensesB, previousYear, d, name)
        IN /\ {D[i].name : i \in 1..Len(D)}
                = {name \in Range(CategoryNames) : cy(name) > 0 \/ py(name) > 0}
           /\ \A i \in 1..Len(D) :
                /\ D[i].currentYear = cy(D[i].name)
                /\ D[i].previousYear = py(D[i].name)
                /\ D[i].difference = D[i].currentYear - D[i].previousYear
           /\ \A i, j \in 1..Len(D) : i < j => DriverBefore(D[i], D[j])

\* C25 witness: a day with three drivers of the same absolute difference,
\* the first put ahead by its larger sum, the other two ordered by name, and
\* a category left out because it rounds to 0 in both periods.
C25_Witness ==
    \E d \in 1..Len(summary.dailyData) :
        LET D == summary.dailyData[d].differenceDrivers
        IN /\ Len(D) = 3
           /\ AbsInt(D[1].difference) = AbsInt(D[3].difference)
           /\ D[1].currentYear + D[1].previousYear
                > D[2].currentYear + D[2].previousYear
           /\ D[2].currentYear + D[2].previousYear
                = D[3].currentYear + D[3].previousYear
           /\ D[2].difference # D[3].difference
           /\ \E t \in Range(ExpensesOfDay(ExpensesA, currentYear, d)) :
                CategoryOf(t) \notin {D[i].name : i \in 1..3}

\* the order of two entries of a per-day category breakdown
BreakdownBefore(a, b) ==
    \/ a.amount > b.amount
    \/ a.amount = b.amount /\ LocaleBefore(a.name, b.name)

\* a breakdown list is that of the expenses of one period on day d
IsBreakdownOf(B, expenses, year, d) ==
    /\ \A i, j \in 1..Len(B) : B[i].name = B[j].name => i = j
    /\ {B[i].name : i \in 1..Len(B)}
         = {name \in Range(CategoryNames) :
                RoundedDaySpend(expenses, year, d, name) > 0}
    /\ \A i \in 1..Len(B) :
         B[i].amount = RoundedDaySpend(expenses, year, d, B[i].name)
    /\ \A i, j \in 1..Len(B) : i < j => BreakdownBefore(B[i], B[j])

\* C26: for every day and each period, the per-day category breakdown lists
\* exactly the categories whose rounded spend on that day is greater than
\* zero, each once, ordered by descending amount and then ascending name.
C26_DailyCategoryBreakdown ==
    \A d \in 1..Len(summary.dailyData) :
        /\ IsBreakdownOf(summary.dailyData[d].currentDayCategoryBreakdown,
                         ExpensesA, currentYear, d)
        /\ IsBreakdownOf(summary.dailyData[d].previousDayCategoryBreakdown,
                         ExpensesB, previousYear, d)

\* C26 witness: a day of period A with three expenses in three categories,
\* two of which round to the same amount and are listed by name, the third
\* left out because it rounds to 0; and two entries in period B.
C26_Witness ==
    \E d \in 1..Len(summary.dailyData) :
        LET B == summary.dailyData[d].currentDayCategoryBreakdown
            a == ExpensesOfDay(ExpensesA, currentYear, d)
        IN /\ Len(a) = 3
           /\ Len(B) = 2
           /\ B[1].amount = B[2].amount
           /\ CategorySpendOf(a, B[1].name) # CategorySpendOf(a, B[2].name)
           /\ Len(summary.dailyData[d].previousDayCategoryBreakdown) = 2

\* the expenses of a period that are accumulated into the per-day spend of
\* some day in 1..totalDaysInView
CountedInDaily(expenses, year) ==
    SelectSeq(expenses, LAMBDA t :
        InView(DayIndex(t.date, year, month), summary.totalDaysInView))

\* C27: dailyData, topCategories and weeklyData aggregate the same expenses
\* of each period: the weekly line items are the expenses counted in the
\* per-day spends, and each topCategories amount is the rounded spend of
\* those expenses on the category.
C27_SameExpensesInAllThree ==
    /\ WeeklyItemsA = Range(CountedInDaily(ExpensesA, currentYear))
    /\ WeeklyItemsB = Range(CountedInDaily(ExpensesB, previousYear))
    /\ \A i \in 1..Len(summary.topCategories) :
         LET e == summary.topCategories[i]
         IN /\ e.currentYear = MathRound(CategorySpendOf(
                   CountedInDaily(ExpensesA, currentYear), e.name))
            /\ e.previousYear = MathRound(CategorySpendOf(
                   CountedInDaily(ExpensesB, previousYear), e.name))

\* the line-item lists of one period, one per weeklyData entry
WeeklyListsA ==
    MapSeq(summary.weeklyData, LAMBDA w : w.currentYearTransactions)

WeeklyListsB ==
    MapSeq(summary.weeklyData, LAMBDA w : w.previousYearTransactions)

\* the number of places at which transaction t stands in the lists
Occurrences(t, lists) ==
    Cardinality({p \in UNION {{<<i, k>> : k \in 1..Len(lists[i])} :
                                 i \in 1..Len(lists)} :
                    lists[p[1]][p[2]] = t})

RECURSIVE SumCounts(_)
SumCounts(counts) ==
    IF Len(counts) = 0 THEN 0 ELSE Head(counts) + SumCounts(Tail(counts))

\* C28: every expense of a period that remains after month restriction,
\* expense filter and category exclusion stands in exactly one weeklyData
\* entry's line-item list of that period, nothing else is listed, and the
\* counts of the period add up to the number of such expenses.
C28_WeeklyPartition ==
    /\ \A t \in Range(ExpensesA) : Occurrences(t, WeeklyListsA) = 1
    /\ \A t \in Range(ExpensesB) : Occurrences(t, WeeklyListsB) = 1
    /\ WeeklyItemsA \subseteq Range(ExpensesA)
    /\ WeeklyItemsB \subseteq Range(ExpensesB)
    /\ SumCounts(MapSeq(summary.weeklyData, LAMBDA w : w.currentYearCount))
         = Len(ExpensesA)
    /\ SumCounts(MapSeq(summary.weeklyData, LAMBDA w : w.previousYearCount))
         = Len(ExpensesB)

\* C28 witness: two expenses of period A in two different weeks and one of
\* period B, in a month view.
C28_Witness ==
    /\ Len(ExpensesA) = 2
    /\ Len(ExpensesB) = 1
    /\ Len(summary.weeklyData) >= 2
    /\ \E i, j \in 1..Len(summary.weeklyData) :
         /\ i # j
         /\ summary.weeklyData[i].currentYearCount = 1
         /\ summary.weeklyData[j].currentYearCount = 1
    /\ Truthy(month)

\* C29: every topCategories entry has difference = currentYear -
\* previousYear on its exposed fields, and the summary's difference is
\* totalCurrentYear - totalPreviousYear.
C29_DifferencesOfExposedAmounts ==
    /\ \A i \in 1..Len(summary.topCategories) :
         summary.topCategories[i].difference
             = summary.topCategories[i].currentYear
               - summary.topCategories[i].previousYear
    /\ summary.difference = summary.totalCurrentYear - summary.totalPreviousYear

----------------------------------------------------------------------------
(* The dashboard's connect flow: handleConnect, handleDisconnect and the
   mount effect.  handleConnect has one suspension point, `await
   fetchUser(key)`; the handlers themselves test nothing before they act,
   so a call may start while another is awaiting. *)

\* the keys typed into the form (trimmed, not empty)
ApiKeys == {"key-a", "key-b"}

\* err instanceof Error ? err.message : "Failed to connect. Check your API
\* key." -- what `request` throws is always an Error
ConnectErrorOf(res) == RequestError(res)

\* first mount with empty storage
InitConnect ==
    /\ EngineAtRest
    /\ FetchAtRest
    /\ ConnectAtRest

\* handleConnect(key) up to `await fetchUser(key)`
ConnectStart ==
    /\ \E key \in ApiKeys \ pendingKeys :
         pendingKeys' = pendingKeys \cup {key}
    /\ isConnecting' = TRUE
    /\ connectError' = Null
    /\ lastEvent' = "connect"
    /\ UNCHANGED <<apiKey, storedKey, validatedKeys>>
    /\ UNCHANGED <<engineVars, fetchVars>>

\* fetchUser(key) resolves: the rest of the try block, then finally
ConnectResolve ==
    /\ \E key \in pendingKeys :
         /\ pendingKeys' = pendingKeys \ {key}
         /\ validatedKeys' = validatedKeys \cup {key}
         /\ apiKey' = Some(key)
         /\ storedKey' = Some(key)
    /\ isConnecting' = FALSE
    /\ lastEvent' = "resolved"
    /\ UNCHANGED connectError
    /\ UNCHANGED <<engineVars, fetchVars>>

\* Mutant of ConnectReject: a failed attempt also forgets the key.
ConnectReject_ForgetsKey ==
    /\ \E key \in pendingKeys :
         pendingKeys' = pendingKeys \ {key}
    /\ \E res \in FailedResponses :
         connectError' = Some(ConnectErrorOf(res))
    /\ apiKey' = Null
    /\ storedKey' = Null
    /\ isConnecting' = FALSE
    /\ lastEvent' = "rejected"
    /\ UNCHANGED validatedKeys
    /\ UNCHANGED <<engineVars, fetchVars>>

\* fetchUser(key) rejects: the catch block, then finally
ConnectReject ==
    /\ \E key \in pendingKeys :
         pendingKeys' = pendingKeys \ {key}
    /\ \E res \in FailedResponses :
         connectError' = Some(ConnectErrorOf(res))
    /\ isConnecting' = FALSE
    /\ lastEvent' = "rejected"
    /\ UNCHANGED <<apiKey, storedKey, validatedKeys>>
    /\ UNCHANGED <<engineVars, fetchVars>>

\* handleDisconnect
Disconnect ==
    /\ apiKey' = Null
    /\ storedKey' = Null
    /\ connectError' = Null
    /\ lastEvent' = "disconnect"
    /\ UNCHANGED <<isConnecting, pendingKeys, validatedKeys>>
    /\ UNCHANGED <<engineVars, fetchVars>>

\* The page is loaded again: the component state starts from its useState
\* values, the calls in flight are gone, and the mount effect restores the
\* key from the storage.
Reload ==
    /\ lastEvent # "reload"
    /\ apiKey' = storedKey
    /\ connectError' = Null
    /\ isConnecting' = FALSE
    /\ pendingKeys' = {}
    /\ lastEvent' = "reload"
    /\ UNCHANGED <<storedKey, validatedKeys>>
    /\ UNCHANGED <<engineVars, fetchVars>>

NextConnect ==
    ConnectStart \/ ConnectResolve \/ ConnectReject \/ Disconnect \/ Reload

SpecConnect == InitConnect /\ [][NextConnect]_vars

\* the key in the state and the key in the storage are keys fetchUser has
\* resolved for
KeysAreValidated ==
    /\ apiKey # Null => apiKey[1] \in validatedKeys
    /\ storedKey # Null => storedKey[1] \in validatedKeys

\* what holds right after an attempt has finished and after a disconnect
AfterConnectFlowStep ==
    /\ lastEvent \in {"resolved", "rejected"} => isConnecting = FALSE
    /\ lastEvent = "rejected" => connectError # Null
    /\ lastEvent = "disconnect" =>
         apiKey = Null /\ storedKey = Null /\ connectError = Null

\* a failed attempt leaves both keys as they were
FailureKeepsKeys ==
    lastEvent' = "rejected" => apiKey' = apiKey /\ storedKey' = storedKey

\* C30: after any sequence of connect and disconnect operations the key is
\* in the component state and in the storage only after fetchUser succeeded
\* for it; a failed connect leaves both keys unchanged and sets
\* connectError; isConnecting is false once an attempt has finished;
\* disconnect clears the key from both places and clears connectError.
C30_ConnectFlow ==
    /\ [](KeysAreValidated /\ AfterConnectFlowStep)
    /\ [][FailureKeepsKeys]_vars

\* C30 witness: an attempt with another key has just failed while a key
\* validated earlier is connected and stored.
C30_Witness ==
    /\ lastEvent = "rejected"
    /\ apiKey = Some("key-a")
    /\ storedKey = Some("key-a")
    /\ validatedKeys = {"key-a"}
    /\ connectError = Some("Unauthorized")
    /\ isConnecting = FALSE

====
